---- MODULE Spec2Model ----
(***************************************************************************)
(* Model of src/main.py: the crisis-investing backtesting script.  One     *)
(* behaviour of Spec is one run of the script from top to bottom (one      *)
(* Streamlit rerun): the sidebar inputs are read, prices are fetched, the  *)
(* portfolio is simulated, its metrics are computed and displayed, and the *)
(* interactive tools (slider, Buy More, Sell All, SPY benchmark) act.      *)
(*                                                                         *)
(* Numbers.  A float64 is modelled as a record Float: an exact reduced     *)
(* fraction n/d (k = "num"), NaN (k = "nan") or a signed infinity          *)
(* (k = "pinf", "ninf").  Arithmetic is exact, so float rounding (of the   *)
(* order of 1e-16 relative) is not modelled.  The two statistics that take *)
(* a square root (volatility, Sharpe ratio) are kept by their kind and     *)
(* sign only: the operands that decide NaN / zero / infinite are exact.    *)
(***************************************************************************)
EXTENDS Integers, Sequences, FiniteSets

\* ------------------------------------------------------------------ bounds
\* Largest number of rows (trading dates) the provider returns.
MaxRows == 2
\* Largest number of rows the provider returns for the SPY benchmark.
MaxBenchRows == 1
\* The allocation text field is read in steps of 1/PctUnits of a percent.
PctUnits == 20
\* Largest number of comma-separated entries typed into the allocation field.
MaxAllocs == 2
\* Series handed to calculate_metrics on its own: their largest length, and
\* the largest of their values (whole numbers from -1 up).
MaxLen == 4
MaxVal == 3

\* --------------------------------------------------------- program constants
\* initial_investment += 1000
BuyMoreAmount == 1000
\* abs(sum(allocations) - 1) < 1e-3, as the fraction 1/TolDen
TolDen == 1000
\* float(x)/100
PercentDen == 100

\* ------------------------------------------------------------------ floats
Abs(x) == IF x < 0 THEN 0 - x ELSE x

RECURSIVE GCD(_, _)
GCD(a, b) == IF b = 0 THEN a ELSE GCD(b, a % b)

Sign(x) == IF x > 0 THEN 1 ELSE IF x < 0 THEN 0 - 1 ELSE 0

\* The fraction n/d (d # 0) in lowest terms with a positive denominator.
Num(n, d) ==
    LET g == GCD(Abs(n), Abs(d))
        s == IF d < 0 THEN 0 - 1 ELSE 1
    IN  [k |-> "num", n |-> s * (n \div g), d |-> s * (d \div g)]

NaN == [k |-> "nan", n |-> 0, d |-> 1]
PInf == [k |-> "pinf", n |-> 1, d |-> 1]
NInf == [k |-> "ninf", n |-> 0 - 1, d |-> 1]
Zero == Num(0, 1)
One == Num(1, 1)

IsNaN(x) == x.k = "nan"
IsNum(x) == x.k = "num"
IsInf(x) == x.k \in {"pinf", "ninf"}
\* Sign of a non-NaN float.
FSign(x) == Sign(x.n)
Signed(s) == IF s > 0 THEN PInf ELSE IF s < 0 THEN NInf ELSE NaN

FNeg(x) ==
    CASE x.k = "num" -> Num(0 - x.n, x.d)
      [] x.k = "pinf" -> NInf
      [] x.k = "ninf" -> PInf
      [] OTHER -> NaN

\* IEEE-754 product; fractions are cross-reduced before multiplying.
FMul(a, b) ==
    IF IsNaN(a) \/ IsNaN(b) THEN NaN
    ELSE IF IsInf(a) \/ IsInf(b) THEN Signed(FSign(a) * FSign(b))
    ELSE LET g1 == GCD(Abs(a.n), b.d)
             g2 == GCD(Abs(b.n), a.d)
         IN  Num((a.n \div g1) * (b.n \div g2), (a.d \div g2) * (b.d \div g1))

\* IEEE-754 quotient: x/0 is a signed infinity, 0/0 and inf/inf are NaN.
FDiv(a, b) ==
    IF IsNaN(a) \/ IsNaN(b) THEN NaN
    ELSE IF IsInf(b) THEN (IF IsInf(a) THEN NaN ELSE Zero)
    ELSE IF b.n = 0 THEN Signed(FSign(a))
    ELSE IF IsInf(a) THEN Signed(FSign(a) * FSign(b))
    ELSE FMul(a, Num(b.d, b.n))

\* IEEE-754 sum; fractions are added over the least common denominator.
FAdd(a, b) ==
    IF IsNaN(a) \/ IsNaN(b) THEN NaN
    ELSE IF IsInf(a) /\ IsInf(b) THEN (IF a.k = b.k THEN a ELSE NaN)
    ELSE IF IsInf(a) THEN a
    ELSE IF IsInf(b) THEN b
    ELSE LET g == GCD(a.d, b.d)
         IN  Num(a.n * (b.d \div g) + b.n * (a.d \div g), (a.d \div g) * b.d)

FSub(a, b) == FAdd(a, FNeg(b))

FAbs(x) == IF IsNaN(x) THEN NaN ELSE IF IsInf(x) THEN PInf ELSE Num(Abs(x.n), x.d)

\* a < b; false when either is NaN, as every float comparison with NaN is.
FLess(a, b) ==
    IF IsNaN(a) \/ IsNaN(b) THEN FALSE
    ELSE LET d == FSub(a, b) IN (~IsNaN(d)) /\ FSign(d) < 0

FLeq(a, b) == (~IsNaN(a)) /\ (~IsNaN(b)) /\ (a = b \/ FLess(a, b))

\* int(x) of a finite float: truncation toward zero.
IntOf(x) == Sign(x.n) * (Abs(x.n) \div x.d)

\* ------------------------------------------------------------ sequence tools
RECURSIVE SumSeq(_)
SumSeq(s) == IF s = <<>> THEN Zero ELSE FAdd(SumSeq(SubSeq(s, 1, Len(s) - 1)), s[Len(s)])

\* pandas' sum(skipna=True): NaN entries count as nothing, an all-NaN sum is 0.
RECURSIVE SumSkipNa(_)
SumSkipNa(s) ==
    IF s = <<>> THEN Zero
    ELSE LET rest == SumSkipNa(SubSeq(s, 1, Len(s) - 1))
             x == s[Len(s)]
         IN  IF IsNaN(x) THEN rest ELSE FAdd(rest, x)

\* All sequences over S of length lo..hi.
SeqsOf(S, lo, hi) == UNION {[1..n -> S] : n \in lo..hi}

Range(s) == {s[i] : i \in 1..Len(s)}

\* -------------------------------------------------------------- data frames
\* A DataFrame of prices: its column labels and its rows (one per trading
\* date, ascending), each row holding one Float per column.
Frame(cols, rows) == [columns |-> cols, rows |-> rows]

\* pd.DataFrame(): no rows and no columns.
EmptyFrame == Frame(<<>>, <<>>)

NRows(data) == Len(data.rows)
NCols(data) == Len(data.columns)

\* DataFrame.empty: some axis has length 0.
IsEmpty(data) == NRows(data) = 0 \/ NCols(data) = 0

\* No cell of the table is missing.
IsComplete(data) ==
    \A r \in 1..NRows(data) : \A c \in 1..NCols(data) : ~IsNaN(data.rows[r][c])

\* fetch_data: an empty download becomes pd.DataFrame(); otherwise the
\* 'Adj Close' columns are returned as the provider gave them, one per ticker
\* (a single ticker's column is renamed to the ticker).  Missing prices stay.
fetch_data(tickers, download) ==
    IF IsEmpty(download) THEN EmptyFrame
    ELSE IF Len(tickers) = 1 THEN Frame(<<tickers[1]>>, download.rows)
    ELSE download

\* ------------------------------------------------------- simulate_portfolio
\* Mutant of Normalized: rebased on the last date, data / data.iloc[-1].
NormalizedByLast(data) ==
    [r \in 1..NRows(data) |->
        [c \in 1..NCols(data) |-> FDiv(data.rows[r][c], data.rows[NRows(data)][c])]]

\* data / data.iloc[0]: every column divided by its value on the first date.
Normalized(data) ==
    [r \in 1..NRows(data) |->
        [c \in 1..NCols(data) |-> FDiv(data.rows[r][c], data.rows[1][c])]]

\* normalized * allocations: the list is matched to the columns by position.
Weighted(normalized, allocations) ==
    [r \in 1..Len(normalized) |->
        [c \in 1..Len(normalized[r]) |-> FMul(normalized[r][c], allocations[c])]]

\* weighted.sum(axis=1) * initial_investment
RowSums(weighted, initial_investment) ==
    [r \in 1..Len(weighted) |-> FMul(SumSkipNa(weighted[r]), Num(initial_investment, 1))]

\* The call's outcome: the series, or the exception it raises.  data.iloc[0]
\* raises IndexError on a frame with no rows; multiplying a frame by a list
\* of another length than its columns raises ValueError.
simulate_portfolio(data, allocations, initial_investment) ==
    IF NRows(data) = 0 THEN [err |-> "IndexError", series |-> <<>>]
    ELSE IF Len(allocations) # NCols(data) THEN [err |-> "ValueError", series |-> <<>>]
    ELSE [err |-> "",
          series |-> RowSums(Weighted(Normalized(data), allocations), initial_investment)]

\* -------------------------------------------------------- calculate_metrics
\* portfolio.pct_change(): value_t / value_{t-1} - 1, NaN on the first date.
PctChange(s) ==
    [t \in 1..Len(s) |-> IF t = 1 THEN NaN ELSE FSub(FDiv(s[t], s[t - 1]), One)]

NotNaN(x) == ~IsNaN(x)

\* .dropna()
DropNa(s) == SelectSeq(s, NotNaN)

\* Series.mean(): NaN for an empty series.
Mean(s) == IF s = <<>> THEN NaN ELSE FDiv(SumSeq(s), Num(Len(s), 1))

\* A statistic known by its kind and sign: NaN, a signed infinity, or a
\* finite number of sign sgn.
Stat(k, sgn) == [k |-> k, sgn |-> sgn]
StatNaN == Stat("nan", 0)

\* Mutant of Std: the population standard deviation (N denominator), which
\* is defined, and zero, for a single observation.
StdPopulation(s) ==
    IF Len(s) < 1 THEN StatNaN
    ELSE IF \E i \in 1..Len(s) : IsInf(s[i]) THEN StatNaN
    ELSE IF \A i \in 1..Len(s) : s[i] = s[1] THEN Stat("num", 0)
    ELSE Stat("num", 1)

\* Series.std(): the sample standard deviation (N-1 denominator).  NaN for
\* fewer than two observations and when an observation is infinite; zero
\* exactly when all observations are equal.
Std(s) ==
    IF Len(s) < 2 THEN StatNaN
    ELSE IF \E i \in 1..Len(s) : IsInf(s[i]) THEN StatNaN
    ELSE IF \A i \in 1..Len(s) : s[i] = s[1] THEN Stat("num", 0)
    ELSE Stat("num", 1)

\* returns.std() * (252 ** 0.5)
Volatility(returns) == Std(returns)

\* returns.mean() / returns.std() * (252 ** 0.5)
Sharpe(returns) ==
    LET m == Mean(returns)
        sd == Std(returns)
    IN  IF IsNaN(m) \/ sd.k = "nan" THEN StatNaN
        ELSE IF sd.sgn = 0
             THEN (IF FSign(m) = 0 THEN StatNaN
                   ELSE Stat(IF FSign(m) > 0 THEN "pinf" ELSE "ninf", FSign(m)))
        ELSE Stat("num", FSign(m))

FMax(a, b) == IF FLess(a, b) THEN b ELSE a

\* portfolio.cummax(): the running maximum.
RECURSIVE CumMaxAt(_, _)
CumMaxAt(s, t) == IF t = 1 THEN s[1] ELSE FMax(CumMaxAt(s, t - 1), s[t])

\* Mutant of cummax: the maximum of the whole series on every date.
WholeMax(s) == [t \in 1..Len(s) |-> CumMaxAt(s, Len(s))]

cummax(s) == [t \in 1..Len(s) |-> CumMaxAt(s, t)]

\* Series.min(): NaN entries are skipped; NaN when nothing is left.
RECURSIVE MinSkipNa(_)
MinSkipNa(s) ==
    IF s = <<>> THEN NaN
    ELSE LET rest == MinSkipNa(SubSeq(s, 1, Len(s) - 1))
             x == s[Len(s)]
         IN  IF IsNaN(x) THEN rest
             ELSE IF IsNaN(rest) THEN x
             ELSE IF FLess(x, rest) THEN x ELSE rest

\* ((portfolio / portfolio.cummax()) - 1).min()
MaxDrawdown(s) ==
    LET cm == cummax(s)
    IN  MinSkipNa([t \in 1..Len(s) |-> FSub(FDiv(s[t], cm[t]), One)])

\* (portfolio.iloc[-1] / portfolio.iloc[0]) - 1
TotalReturn(s) == FSub(FDiv(s[Len(s)], s[1]), One)

\* calculate_metrics of a series of at least one point.
calculate_metrics(portfolio) ==
    LET returns == DropNa(PctChange(portfolio))
    IN  [total_return |-> TotalReturn(portfolio),
         volatility |-> Volatility(returns),
         sharpe_ratio |-> Sharpe(returns),
         max_drawdown |-> MaxDrawdown(portfolio)]

NoMetrics ==
    [total_return |-> NaN, volatility |-> StatNaN, sharpe_ratio |-> StatNaN,
     max_drawdown |-> NaN]

\* ------------------------------------------------------------------ inputs
\* The tickers offered by the multiselect (a subset of def_tickers keeps the
\* model small; the benchmark's "SPY" is fetched whatever is selected).
DefTickers == {"AAPL", "TSLA"}

\* A multiselect's value: distinct options, in the order they were picked.
Selections ==
    {s \in SeqsOf(DefTickers, 0, Cardinality(DefTickers)) :
        \A i, j \in 1..Len(s) : i # j => s[i] # s[j]}

\* One comma-separated entry of the allocation field: text float() accepts,
\* worth units/PctUnits percent, or text it rejects.
Entry(numeric, units) == [numeric |-> numeric, units |-> units]

AllocTexts ==
    {Entry(FALSE, 0)} \cup
    {Entry(TRUE, u) : u \in {30 * PctUnits, 50 * PctUnits - 1, 50 * PctUnits, 100 * PctUnits}}

\* float(x)/100
ParseAllocation(entry) == Num(entry.units, PctUnits * PercentDen)

\* Values typed into the Initial Investment field (no min_value is set).
InvestmentInputs == {0 - 100, 0, 1000}

\* A price cell of the provider's table: a positive price or a missing value.
PriceCells == {NaN} \cup {Num(p, 1) : p \in {1, 2}}

\* The orders in which the provider may return the requested columns.
ColumnOrders(tickers) ==
    {p \in [1..Len(tickers) -> Range(tickers)] :
        \A i, j \in 1..Len(tickers) : i # j => p[i] # p[j]}

\* What yf.download may return for the tickers: nothing, or up to maxRows
\* dates with one 'Adj Close' column per requested ticker.
Downloads(tickers, maxRows) ==
    {EmptyFrame} \cup
    {Frame(cols, rows) :
        cols \in ColumnOrders(tickers),
        rows \in SeqsOf([1..Len(tickers) -> PriceCells], 1, maxRows)}

\* ------------------------------------------------------------------- state
VARIABLES
    pc,                    \* the script's position
    error,                 \* the st.error shown or the exception raised, "" if none
    ticker_list,
    alloc_input,           \* the allocation field as typed
    allocations,
    initial_investment,
    data,
    portfolio,
    metrics,               \* total_return, volatility, sharpe, drawdown
    displayed,             \* the four st.metric of the report were rendered
    live_value,
    change_from_original,
    bought,                \* Buy More was the button pressed in this run
    final_value,           \* the Final Value shown by Sell All, NaN if not shown
    benchmark_portfolio,
    sim_calls,             \* every call of simulate_portfolio so far, in order
    old_portfolio          \* the series Buy More replaced, <<>> if none

vars ==
    <<pc, error, ticker_list, alloc_input, allocations, initial_investment, data,
      portfolio, metrics, displayed, live_value, change_from_original, bought,
      final_value, benchmark_portfolio, sim_calls, old_portfolio>>

\* What a call of simulate_portfolio was given, and whether it returned a series.
CallRecord(site, d, allocs, invest, res) ==
    [site |-> site,
     rows |-> NRows(d),
     cols |-> NCols(d),
     empty |-> IsEmpty(d),
     complete |-> IsComplete(d),
     weights |-> Len(allocs),
     weight_sum |-> SumSeq(allocs),
     invest |-> invest,
     produced |-> res.err = ""]

Init ==
    /\ pc = "select"
    /\ error = ""
    /\ ticker_list = <<>>
    /\ alloc_input = <<>>
    /\ allocations = <<>>
    /\ initial_investment = 0
    /\ data = EmptyFrame
    /\ portfolio = <<>>
    /\ metrics = NoMetrics
    /\ displayed = FALSE
    /\ live_value = 0
    /\ change_from_original = NaN
    /\ bought = FALSE
    /\ final_value = NaN
    /\ benchmark_portfolio = <<>>
    /\ sim_calls = <<>>
    /\ old_portfolio = <<>>

\* st.error(...) followed by st.stop()
Stop(msg) == pc' = "stopped" /\ error' = msg

\* An uncaught exception ends the run.
Crash(exc) == pc' = "crashed" /\ error' = exc

\* ----------------------------------------------------------------- sidebar
\* Lines 63-69: the multiselect; an empty selection stops the run.
SelectStocks ==
    /\ pc = "select"
    /\ \E all_stock_options \in Selections :
        IF all_stock_options = <<>>
        THEN /\ Stop("Please select at least one stock/ETF.")
             /\ UNCHANGED ticker_list
        ELSE /\ ticker_list' = all_stock_options
             /\ pc' = "alloc"
             /\ UNCHANGED error
    /\ UNCHANGED <<alloc_input, allocations, initial_investment, data, portfolio,
                   metrics, displayed, live_value, change_from_original, bought,
                   final_value, benchmark_portfolio, sim_calls, old_portfolio>>

\* abs(sum(allocations) - 1) < 1e-3
SumsToOne(allocs) == FLess(FAbs(FSub(SumSeq(allocs), One)), Num(1, TolDen))

\* Mutant of AllocationsValid: the sum of the weights is not checked.
AllocationsCountOnly(allocs, tickers) == Len(allocs) = Len(tickers)

\* Lines 82-88: one weight per selected ticker, and the weights sum to 1.
AllocationsValid(allocs, tickers) == Len(allocs) = Len(tickers) /\ SumsToOne(allocs)

\* Lines 74-88: the allocation field is parsed and validated.
EnterAllocations ==
    /\ pc = "alloc"
    /\ \E text \in SeqsOf(AllocTexts, 1, MaxAllocs) :
        LET parsed == [i \in 1..Len(text) |-> ParseAllocation(text[i])]
        IN  /\ alloc_input' = text
            /\ IF \E i \in 1..Len(text) : ~text[i].numeric
               THEN /\ Stop("Allocations must be numeric values separated by commas.")
                    /\ UNCHANGED allocations
               ELSE IF Len(parsed) # Len(ticker_list)
               THEN /\ Stop("Number of allocations must match number of tickers.")
                    /\ allocations' = parsed
               ELSE IF ~AllocationsValid(parsed, ticker_list)
               THEN /\ Stop("Allocations must sum up to 100%.")
                    /\ allocations' = parsed
               ELSE /\ allocations' = parsed
                    /\ pc' = "invest"
                    /\ UNCHANGED error
    /\ UNCHANGED <<ticker_list, initial_investment, data, portfolio, metrics,
                   displayed, live_value, change_from_original, bought, final_value,
                   benchmark_portfolio, sim_calls, old_portfolio>>

\* Line 90: the Initial Investment number input.
EnterInvestment ==
    /\ pc = "invest"
    /\ \E v \in InvestmentInputs : initial_investment' = v
    /\ pc' = "fetch"
    /\ UNCHANGED <<error, ticker_list, alloc_input, allocations, data, portfolio,
                   metrics, displayed, live_value, change_from_original, bought,
                   final_value, benchmark_portfolio, sim_calls, old_portfolio>>

\* ---------------------------------------------------------- run simulation
\* Lines 96-99: the prices are fetched; an empty table stops the run.
FetchData ==
    /\ pc = "fetch"
    /\ \E download \in Downloads(ticker_list, MaxRows) :
        /\ data' = fetch_data(ticker_list, download)
        /\ IF IsEmpty(data')
           THEN Stop("Failed to fetch data. Please check tickers or date range.")
           ELSE pc' = "simulate" /\ UNCHANGED error
    /\ UNCHANGED <<ticker_list, alloc_input, allocations, initial_investment,
                   portfolio, metrics, displayed, live_value, change_from_original,
                   bought, final_value, benchmark_portfolio, sim_calls, old_portfolio>>

\* Line 101: portfolio = simulate_portfolio(data, allocations, initial_investment)
Simulate ==
    /\ pc = "simulate"
    /\ LET res == simulate_portfolio(data, allocations, initial_investment)
       IN  /\ sim_calls' = Append(sim_calls,
                   CallRecord("main", data, allocations, initial_investment, res))
           /\ IF res.err # ""
              THEN Crash(res.err) /\ UNCHANGED portfolio
              ELSE portfolio' = res.series /\ pc' = "metrics" /\ UNCHANGED error
    /\ UNCHANGED <<ticker_list, alloc_input, allocations, initial_investment, data,
                   metrics, displayed, live_value, change_from_original, bought,
                   final_value, benchmark_portfolio, old_portfolio>>

\* Line 102: total_return, volatility, sharpe, drawdown = calculate_metrics(portfolio)
Metrics ==
    /\ pc = "metrics"
    /\ metrics' = calculate_metrics(portfolio)
    /\ pc' = "display"
    /\ UNCHANGED <<error, ticker_list, alloc_input, allocations, initial_investment,
                   data, portfolio, displayed, live_value, change_from_original,
                   bought, final_value, benchmark_portfolio, sim_calls, old_portfolio>>

\* Lines 107-115: the four metrics and the chart are rendered (formatting a
\* NaN or an infinity prints "nan" or "inf", it does not raise).
Display ==
    /\ pc = "display"
    /\ displayed' = TRUE
    /\ pc' = "slider"
    /\ UNCHANGED <<error, ticker_list, alloc_input, allocations, initial_investment,
                   data, portfolio, metrics, live_value, change_from_original,
                   bought, final_value, benchmark_portfolio, sim_calls, old_portfolio>>

\* ------------------------------------------------------- live value tracker
RECURSIVE SeriesMax(_)
SeriesMax(s) ==
    IF Len(s) = 1 THEN s[1] ELSE FMax(SeriesMax(SubSeq(s, 1, Len(s) - 1)), s[Len(s)])

\* max_value=int(portfolio.max()*1.2)
SliderMax(s) == IntOf(FMul(SeriesMax(s), Num(12, 10)))

\* value=int(portfolio.iloc[-1])
SliderValue(s) == IntOf(s[Len(s)])

\* The slider's arguments are ones st.slider documents: min_value below
\* max_value and the initial value between them.
SliderArgsOk(s) == 0 < SliderMax(s) /\ 0 <= SliderValue(s) /\ SliderValue(s) <= SliderMax(s)

\* Line 121: the slider, which the user leaves at its initial value.  With
\* arguments outside the documented ones the widget either raises or renders
\* at the initial value.
Slider ==
    /\ pc = "slider"
    /\ \/ /\ SliderArgsOk(portfolio)
          /\ live_value' = SliderValue(portfolio)
          /\ pc' = "change"
          /\ UNCHANGED error
       \/ /\ ~SliderArgsOk(portfolio)
          /\ live_value' = SliderValue(portfolio)
          /\ pc' = "change"
          /\ UNCHANGED error
       \/ /\ ~SliderArgsOk(portfolio)
          /\ Crash("StreamlitAPIException")
          /\ UNCHANGED live_value
    /\ UNCHANGED <<ticker_list, alloc_input, allocations, initial_investment, data,
                   portfolio, metrics, displayed, change_from_original, bought,
                   final_value, benchmark_portfolio, sim_calls, old_portfolio>>

\* Lines 122-123: ((live_value - initial_investment) / initial_investment) * 100
\* on Python numbers: a zero divisor raises ZeroDivisionError.
Change ==
    /\ pc = "change"
    /\ IF initial_investment = 0
       THEN Crash("ZeroDivisionError") /\ UNCHANGED change_from_original
       ELSE /\ change_from_original' =
                   FMul(Num(live_value - initial_investment, initial_investment),
                        Num(100, 1))
            /\ pc' = "buy"
            /\ UNCHANGED error
    /\ UNCHANGED <<ticker_list, alloc_input, allocations, initial_investment, data,
                   portfolio, metrics, displayed, live_value, bought, final_value,
                   benchmark_portfolio, sim_calls, old_portfolio>>

\* ------------------------------------------------------- interactive tools
\* Mutant of BuyMore: the top-up is added to the current (last) value of the
\* trajectory, whose earlier values are kept.
BuyMoreGraft ==
    /\ pc = "buy"
    /\ \E pressed \in BOOLEAN :
        IF pressed
        THEN /\ initial_investment' = initial_investment + BuyMoreAmount
             /\ old_portfolio' = portfolio
             /\ portfolio' =
                    [t \in 1..Len(portfolio) |->
                        IF t = Len(portfolio)
                        THEN FAdd(portfolio[t], Num(BuyMoreAmount, 1))
                        ELSE portfolio[t]]
             /\ bought' = TRUE
             /\ pc' = "sell"
             /\ UNCHANGED <<error, sim_calls>>
        ELSE /\ pc' = "sell"
             /\ UNCHANGED <<error, initial_investment, sim_calls, bought, portfolio,
                            old_portfolio>>
    /\ UNCHANGED <<ticker_list, alloc_input, allocations, data, metrics, displayed,
                   live_value, change_from_original, final_value, benchmark_portfolio>>

\* Lines 130-133: Buy More.  A button is True only in the run its click
\* started, so at most one of the two buttons is pressed in a run.
BuyMore ==
    /\ pc = "buy"
    /\ \E pressed \in BOOLEAN :
        IF pressed
        THEN LET invest == initial_investment + BuyMoreAmount
                 res == simulate_portfolio(data, allocations, invest)
             IN  /\ initial_investment' = invest
                 /\ sim_calls' = Append(sim_calls,
                         CallRecord("buy", data, allocations, invest, res))
                 /\ bought' = TRUE
                 /\ old_portfolio' = portfolio
                 /\ IF res.err # ""
                    THEN Crash(res.err) /\ UNCHANGED portfolio
                    ELSE portfolio' = res.series /\ pc' = "sell" /\ UNCHANGED error
        ELSE /\ pc' = "sell"
             /\ UNCHANGED <<error, initial_investment, sim_calls, bought, portfolio,
                            old_portfolio>>
    /\ UNCHANGED <<ticker_list, alloc_input, allocations, data, metrics, displayed,
                   live_value, change_from_original, final_value, benchmark_portfolio>>

\* Lines 135-137: Sell All shows the last value of the portfolio.
SellAll ==
    /\ pc = "sell"
    /\ \E pressed \in {FALSE, ~bought} :
        final_value' = IF pressed THEN portfolio[Len(portfolio)] ELSE NaN
    /\ pc' = "bench"
    /\ UNCHANGED <<error, ticker_list, alloc_input, allocations, initial_investment,
                   data, portfolio, metrics, displayed, live_value,
                   change_from_original, bought, benchmark_portfolio, sim_calls, old_portfolio>>

\* Lines 140-144: with the checkbox ticked, SPY is fetched and simulated with
\* the single weight 1; the fetched table is not looked at before the call.
Benchmark ==
    /\ pc = "bench"
    /\ \E checked \in BOOLEAN :
        IF checked
        THEN \E download \in Downloads(<<"SPY">>, MaxBenchRows) :
                LET benchmark == fetch_data(<<"SPY">>, download)
                    res == simulate_portfolio(benchmark, <<One>>, initial_investment)
                IN  /\ sim_calls' = Append(sim_calls,
                            CallRecord("spy", benchmark, <<One>>, initial_investment, res))
                    /\ IF res.err # ""
                       THEN Crash(res.err) /\ UNCHANGED benchmark_portfolio
                       ELSE /\ benchmark_portfolio' = res.series
                            /\ pc' = "done"
                            /\ UNCHANGED error
        ELSE /\ pc' = "done"
             /\ UNCHANGED <<error, benchmark_portfolio, sim_calls>>
    /\ UNCHANGED <<ticker_list, alloc_input, allocations, initial_investment, data,
                   portfolio, metrics, displayed, live_value, change_from_original,
                   bought, final_value, old_portfolio>>

Next ==
    \/ SelectStocks
    \/ EnterAllocations
    \/ EnterInvestment
    \/ FetchData
    \/ Simulate
    \/ Metrics
    \/ Display
    \/ Slider
    \/ Change
    \/ BuyMore
    \/ SellAll
    \/ Benchmark

Spec == Init /\ [][Next]_vars

\* ------------------------------------------- calculate_metrics on its own
\* Series handed to calculate_metrics directly: 1..MaxLen whole values.
SeriesInputs == SeqsOf({Num(v, 1) : v \in (0 - 1)..MaxVal}, 1, MaxLen)

InitMetrics ==
    /\ pc = "m_start"
    /\ error = ""
    /\ ticker_list = <<>>
    /\ alloc_input = <<>>
    /\ allocations = <<>>
    /\ initial_investment = 0
    /\ data = EmptyFrame
    /\ portfolio \in SeriesInputs
    /\ metrics = NoMetrics
    /\ displayed = FALSE
    /\ live_value = 0
    /\ change_from_original = NaN
    /\ bought = FALSE
    /\ final_value = NaN
    /\ benchmark_portfolio = <<>>
    /\ sim_calls = <<>>
    /\ old_portfolio = <<>>

\* One call of calculate_metrics(portfolio).
MetricsOnly ==
    /\ pc = "m_start"
    /\ metrics' = calculate_metrics(portfolio)
    /\ pc' = "m_done"
    /\ UNCHANGED <<error, ticker_list, alloc_input, allocations, initial_investment,
                   data, portfolio, displayed, live_value, change_from_original,
                   bought, final_value, benchmark_portfolio, sim_calls, old_portfolio>>

NextMetrics == MetricsOnly

SpecMetrics == InitMetrics /\ [][NextMetrics]_vars

\* ------------------------------------------------------------------ claims
\* The sum of the weights applied to the columns that have a price on the
\* first date (all the weights, for a complete table).
FirstDateWeightSum(d, allocs) ==
    SumSeq([c \in 1..NCols(d) |-> IF IsNaN(d.rows[1][c]) THEN Zero ELSE allocs[c]])

\* |x - v| <= |v| / tolDen, for finite x and v # 0.
RelErrAtMost(x, v, tolDen) ==
    LET r == FAbs(FDiv(FSub(x, Num(v, 1)), Num(v, 1)))
    IN  r.n <= r.d \div tolDen

\* |x - v| < |v| / tolDen
RelErrBelow(x, v, tolDen) ==
    LET r == FAbs(FDiv(FSub(x, Num(v, 1)), Num(v, 1)))
    IN  r.n <= (r.d - 1) \div tolDen

\* simulate_portfolio has just returned the series held in portfolio: on the
\* main run, or on the Buy More re-run.
BuyMoreReturned == pc = "sell" /\ bought

SimulateReturned == pc = "metrics" \/ BuyMoreReturned

\* C1 as stated: for a complete, non-empty price table, validated allocations
\* and a positive investment, the first value of the simulated series equals
\* initial_investment within 1e-9 relative tolerance.
C1_FirstValueWithin1e9 ==
    (SimulateReturned /\ IsComplete(data) /\ initial_investment > 0)
        => RelErrAtMost(portfolio[1], initial_investment, 1000000000)

\* C1 amended: the first value of the simulated series is initial_investment
\* times the sum of the weights of the tickers priced on the first date; for a
\* complete table and a positive investment it is therefore within 1e-3 (the
\* validation tolerance) of initial_investment, and exact when the weights sum
\* to exactly 1.
C1_FirstValueIsWeightSum ==
    SimulateReturned =>
        /\ portfolio[1] =
              FMul(FirstDateWeightSum(data, allocations), Num(initial_investment, 1))
        /\ (IsComplete(data) /\ initial_investment > 0) =>
              /\ RelErrBelow(portfolio[1], initial_investment, TolDen)
              /\ (SumSeq(allocations) = One => portfolio[1] = Num(initial_investment, 1))

\* C1 witness: a simulated two-ticker complete table, positive investment,
\* validated weights that do not sum to exactly 1.
C1_Witness ==
    /\ SimulateReturned
    /\ IsComplete(data)
    /\ NCols(data) = 2
    /\ initial_investment > 0
    /\ SumSeq(allocations) # One

\* The weights of a call are one per column and sum to 1 within 1e-3, bounds
\* included (the interval of the claim).
CallAllocationOk(call) ==
    /\ call.weights = call.cols
    /\ FLeq(FAbs(FSub(call.weight_sum, One)), Num(1, TolDen))

AllocationErrors ==
    {"Number of allocations must match number of tickers.",
     "Allocations must sum up to 100%."}

\* C2: no portfolio series is ever produced, on the main run, the Buy More
\* re-run or the SPY benchmark run, from weights whose count differs from the
\* number of columns or whose sum is outside [1-1e-3, 1+1e-3]; entered
\* allocations of that kind stop the run with an allocation error before any
\* simulation.
C2_InvalidAllocationRejected ==
    /\ \A i \in 1..Len(sim_calls) :
          sim_calls[i].produced => CallAllocationOk(sim_calls[i])
    /\ (/\ allocations # <<>>
        /\ \/ Len(allocations) # Len(ticker_list)
           \/ ~FLeq(FAbs(FSub(SumSeq(allocations), One)), Num(1, TolDen)))
       => /\ pc = "stopped"
          /\ error \in AllocationErrors
          /\ sim_calls = <<>>
          /\ portfolio = <<>>
          /\ benchmark_portfolio = <<>>

\* C2 witness: one weight per ticker was entered for two tickers, the weights
\* do not sum to 1, and the run was stopped with the allocation error.
C2_Witness ==
    /\ pc = "stopped"
    /\ error = "Allocations must sum up to 100%."
    /\ Len(allocations) = 2
    /\ Len(ticker_list) = 2
    /\ sim_calls = <<>>

\* The run's inputs are the ones the specification allows: a positive
\* investment and a main price table with no missing price.
PositiveInvestment ==
    initial_investment > 0 /\ \A i \in 1..Len(sim_calls) : sim_calls[i].invest > 0

CleanInputs == PositiveInvestment /\ IsComplete(data)

\* C3 as stated: simulate_portfolio is never invoked on an empty price table
\* (main run, Buy More re-run, SPY benchmark run); stated here for runs whose
\* other inputs are clean.
C3_EmptyTableNeverSimulated ==
    CleanInputs => \A i \in 1..Len(sim_calls) : ~sim_calls[i].empty

\* C4 as stated: a one-row price table never yields a displayed metrics
\* report (calculate_metrics fails on a series of fewer than 2 points);
\* stated here for runs whose other inputs are clean.
C4_OneRowNoReport ==
    (CleanInputs /\ displayed) => Len(portfolio) >= 2

IsConstant(s) == \A t \in 1..Len(s) : s[t] = s[1]

\* C5 as stated: for a constant series of at least 2 points with all period
\* returns zero, volatility and Sharpe ratio are both the undefined marker,
\* total_return is 0 and max_drawdown is 0.
C5_ConstantBothUndefined ==
    (pc = "m_done" /\ Len(portfolio) >= 2 /\ IsConstant(portfolio) /\ portfolio[1] # Zero)
        => /\ metrics.volatility.k = "nan"
           /\ metrics.sharpe_ratio.k = "nan"
           /\ metrics.total_return = Zero
           /\ metrics.max_drawdown = Zero

\* C5 amended: for a constant non-zero series of at least 2 points
\* calculate_metrics returns (no exception) with the Sharpe ratio NaN,
\* total_return 0 and max_drawdown 0; the volatility is the number 0 when the
\* series has 3 or more points and NaN only when it has exactly 2 (a single
\* return has no sample standard deviation).
C5_ConstantSharpeUndefined ==
    (pc = "m_done" /\ Len(portfolio) >= 2 /\ IsConstant(portfolio) /\ portfolio[1] # Zero)
        => /\ metrics.sharpe_ratio.k = "nan"
           /\ metrics.total_return = Zero
           /\ metrics.max_drawdown = Zero
           /\ Len(portfolio) = 2 => metrics.volatility.k = "nan"
           /\ Len(portfolio) >= 3 => metrics.volatility = Stat("num", 0)
           /\ error = ""

\* C5 witness: the metrics of a constant non-zero series of 3 points.
C5_Witness ==
    /\ pc = "m_done"
    /\ Len(portfolio) = 3
    /\ IsConstant(portfolio)
    /\ portfolio[1] # Zero

\* The weight the user entered for the ticker: the entry at the ticker's
\* position in the selection.
EnteredWeight(ticker) ==
    allocations[CHOOSE i \in 1..Len(ticker_list) : ticker_list[i] = ticker]

\* C6 as stated: the weight multiplied into a column of the price table is
\* the weight entered for that column's ticker, whatever the column order;
\* stated here for runs whose other inputs are clean.
C6_WeightMatchedByTicker ==
    (CleanInputs /\ sim_calls # <<>> /\ sim_calls[1].produced)
        => \A c \in 1..NCols(data) : allocations[c] = EnteredWeight(data.columns[c])

IsPositive(s) == \A t \in 1..Len(s) : IsNum(s[t]) /\ FSign(s[t]) > 0

NonDecreasing(s) == \A t \in 2..Len(s) : FLeq(s[t - 1], s[t])

\* C7: for a series of positive values of length at least 2, max_drawdown is
\* <= 0, and it is 0 if and only if the series is non-decreasing.
C7_DrawdownBounded ==
    (pc = "m_done" /\ Len(portfolio) >= 2 /\ IsPositive(portfolio))
        => /\ FLeq(metrics.max_drawdown, Zero)
           /\ (metrics.max_drawdown = Zero <=> NonDecreasing(portfolio))

\* C7 witness: the metrics of a positive series that rises and then falls.
C7_Witness ==
    /\ pc = "m_done"
    /\ Len(portfolio) >= 3
    /\ IsPositive(portfolio)
    /\ FLess(portfolio[1], portfolio[2])
    /\ FLess(portfolio[3], portfolio[2])
    /\ FLess(metrics.max_drawdown, Zero)

\* The investment before Buy More was pressed.
InvestmentBefore == initial_investment - BuyMoreAmount

\* C8 as stated: after Buy More the series has the same dates, its first
\* value is initial_investment + 1000 and every value is the old value times
\* (initial_investment + 1000) / initial_investment (complete table, positive
\* investment).
C8_BuyMoreFirstValueIsInvestment ==
    (BuyMoreReturned /\ IsComplete(data) /\ InvestmentBefore > 0)
        => /\ Len(portfolio) = Len(old_portfolio)
           /\ portfolio[1] = Num(initial_investment, 1)
           /\ \A t \in 1..Len(portfolio) :
                 portfolio[t] =
                    FMul(old_portfolio[t], Num(initial_investment, InvestmentBefore))

\* C8 amended: after Buy More the series is recomputed in full with
\* initial_investment + 1000: it has the same dates as before, every value is
\* the old value times (initial_investment + 1000) / initial_investment (the
\* old values are all 0 when initial_investment is 0), and its first value is
\* (initial_investment + 1000) times the sum of the weights of the tickers
\* priced on the first date, which is initial_investment + 1000 only when
\* that sum is exactly 1.
C8_BuyMoreRescales ==
    BuyMoreReturned =>
        /\ Len(portfolio) = Len(old_portfolio)
        /\ Len(portfolio) = NRows(data)
        /\ portfolio[1] =
              FMul(FirstDateWeightSum(data, allocations), Num(initial_investment, 1))
        /\ \A t \in 1..Len(portfolio) :
              IF InvestmentBefore = 0
              THEN old_portfolio[t] = Zero
              ELSE portfolio[t] =
                      FMul(old_portfolio[t], Num(initial_investment, InvestmentBefore))

\* C8 witness: Buy More pressed on a two-date series that moved, with a
\* positive investment and weights that do not sum to exactly 1.
C8_Witness ==
    /\ BuyMoreReturned
    /\ InvestmentBefore > 0
    /\ Len(old_portfolio) = 2
    /\ old_portfolio[1] # old_portfolio[2]
    /\ IsComplete(data)
    /\ SumSeq(allocations) # One

\* C9 as stated: every price table that reaches simulate_portfolio is
\* complete (no ticker is missing on any date); stated here for runs with a
\* positive investment.
C9_OnlyCompleteTablesSimulated ==
    PositiveInvestment => \A i \in 1..Len(sim_calls) : sim_calls[i].complete

\* C10 as stated: simulate_portfolio is only ever invoked with a strictly
\* positive initial_investment, and the Change from Initial Investment
\* computation never divides by zero; stated here for runs whose main price
\* table has no missing price.
C10_InvestmentPositive ==
    IsComplete(data) =>
        /\ \A i \in 1..Len(sim_calls) : sim_calls[i].invest > 0
        /\ error # "ZeroDivisionError"
====
